---------------------------- MODULE Spec2Model ----------------------------
(***************************************************************************)
(* The fuzzy word-search engine of signbot (src/word-search.py): the two   *)
(* JSON-lines record stores, the loader, text normalization, the tiered    *)
(* ranking of one entry, search (rank, sort, truncate), the report of      *)
(* format_results and the command-line harness main; and, around it, the  *)
(* daily word of a guild (src/commands.py) and the incremental update of   *)
(* the handspeak store (src/web_search.py).                                *)
(*                                                                         *)
(* A text is a sequence of one-character strings.  A score is an exact     *)
(* rational [num, den] in lowest terms standing for the code's float:      *)
(* 1.00, 0.92, 0.88, 0.75 and 0.50 + 0.40 * (2M/T).  Two scores of texts   *)
(* of up to 8 normalized characters together are equal as rationals        *)
(* exactly when the floats are equal and are ordered alike (the float      *)
(* error is below 1e-15, distinct values differ by more than 1e-4); the    *)
(* same holds for sim >= 0.72 and for the two decimals of the reason.      *)
(* An Entry carries the position of its record line, which stands for the  *)
(* identity of the Python object.                                          *)
(***************************************************************************)
EXTENDS Integers, Sequences, FiniteSets, TLC

VARIABLES
    hsStatus,   \* handspeak-dict.txt: "missing" | "present" | "unreadable"
    hsLines,    \* its lines, in file order
    lpStatus,   \* lifeprint-dict.txt, likewise
    lpLines,
    callStatus, \* last search call: "idle" | "returned" | "raised"
    callQuery,  \* its raw query text
    callLimit,  \* its limit
    callLoaded, \* whether that call opened the record stores
    callResult, \* the list it returned
    fmtStatus,  \* last report: "none" | "returned" (format_results) | "printed" (main)
    fmtReasons, \* its include_reasons
    fmtText,    \* the text of the report
    mainStatus, \* main(argv): "none" | "returned" | "raised"
    mainArgs,   \* argv[1:]
    mainReturn, \* the value main returned
    textStatus, \* text under normalization: "none" | "raw" | "done"
    textIn,     \* the raw text
    textNorm,   \* normalize_text of it
    textTokens, \* tokenize of it
    histOn,     \* whether the caller keeps the entries of its earlier call
    prevEntries, \* the entries the stores held at the caller's earlier call
    twinStatus, \* a second call on the same stores: "none" | "returned" | "raised"
    twinQuery,  \* its raw query text (its limit is callLimit)
    twinResult, \* the list it returned
    dailyPc,      \* each _post_daily_word invocation: "idle" | "sending" | "true" | "false" | "raised"
    dailyHistory, \* the UTC days of the "ts" of the guild's history entries
    dailyToday,   \* the current UTC day
    dailySent,    \* per UTC day, the daily-word messages sent to the channel
    updStatus,    \* update_handspeak_dict: "idle" | "running" | "done"
    updMaxNew,    \* its max_new
    updMax404,    \* its max_consecutive_404
    updWrote,     \* wrote
    updMisses,    \* consecutive_404
    updId,        \* entry_id
    updStop,      \* why it returned: "none" | "max_new" | "error" | "404s"
    updResponses  \* the responses of the server so far: "ok" | "404" | "error"

storeVars == <<hsStatus, hsLines, lpStatus, lpLines>>
callVars == <<callStatus, callQuery, callLimit, callLoaded, callResult>>
reportVars == <<fmtStatus, fmtReasons, fmtText, mainStatus, mainArgs, mainReturn>>
textVars == <<textStatus, textIn, textNorm, textTokens>>
histVars == <<histOn, prevEntries>>
twinVars == <<twinStatus, twinQuery, twinResult>>
dailyVars == <<dailyPc, dailyHistory, dailyToday, dailySent>>
updVars == <<updStatus, updMaxNew, updMax404, updWrote, updMisses, updId, updStop, updResponses>>
sideVars == <<dailyVars, updVars>>
vars == <<storeVars, callVars, reportVars, textVars, histVars, twinVars, sideVars>>

---------------------------------------------------------------------------
(* Bounds.                                                                 *)

\* Longest raw query and raw title of the exhaustive ranking specification.
MaxLen == 3
\* Most lines the two record stores hold together.
MaxLines == 3
\* Largest limit a search is called with.
MaxLimit == 2
\* Most _post_daily_word invocations in progress at once for one guild.
MaxInvocations == 2
\* Largest max_new and largest max_consecutive_404 of an update.
MaxNew == 3
MaxMisses == 3

\* Number of UTC days a behaviour of the daily word spans.
MaxDays == 2

---------------------------------------------------------------------------
(* Characters and texts.                                                   *)

LowerChars == {"a", "b", "e", "h", "l", "o"}
UpperChars == {"A", "B"}
DigitChars == {"1"}
SpaceChars == {" ", "\t", "\n"}
PunctChars == {"!"}

\* str.lower() on one character.
LowerChar(c) ==
    CASE c = "A" -> "a"
      [] c = "B" -> "b"
      [] OTHER -> c

\* \s of the re module.
IsSpace(c) == c \in SpaceChars

\* The complement of _WORD_CHARS_RE = [^a-z0-9\s].
IsWordOrSpace(c) == c \in LowerChars \cup DigitChars \cup SpaceChars

\* All texts over alphabet A of length at most n.
Texts(A, n) == UNION {[1..k -> A] : k \in 0..n}

Min(a, b) == IF a <= b THEN a ELSE b
Max(a, b) == IF a >= b THEN a ELSE b

\* s[lo:hi] with 0-based lo inclusive, hi exclusive, 0 <= lo <= hi <= len(s).
Slice(s, lo, hi) == [k \in 1..(hi - lo) |-> s[lo + k]]

RECURSIVE LStrip(_)
LStrip(s) ==
    IF s # <<>> /\ IsSpace(Head(s)) THEN LStrip(Tail(s)) ELSE s

RECURSIVE RStrip(_)
RStrip(s) ==
    IF s # <<>> /\ IsSpace(s[Len(s)]) THEN RStrip(SubSeq(s, 1, Len(s) - 1)) ELSE s

\* str.strip()
Strip(s) == RStrip(LStrip(s))

\* str.lower()
Lower(s) == [k \in 1..Len(s) |-> LowerChar(s[k])]

\* _WORD_CHARS_RE.sub(" ", s)
SubNonWord(s) == [k \in 1..Len(s) |-> IF IsWordOrSpace(s[k]) THEN s[k] ELSE " "]

\* re.sub(r"\s+", " ", s): every maximal run of whitespace becomes one space.
RECURSIVE CollapseSpace(_)
CollapseSpace(s) ==
    IF s = <<>> THEN <<>>
    ELSE IF IsSpace(Head(s))
         THEN <<" ">> \o CollapseSpace(LStrip(s))
         ELSE <<Head(s)>> \o CollapseSpace(Tail(s))

\* normalize_text without the re.sub(r"\s+", " ", s) of line 48.
normalize_text_NoCollapse(s) == Strip(SubNonWord(Strip(Lower(s))))

\* normalize_text without the .strip() that ends line 48.
normalize_text_NoFinalStrip(s) == CollapseSpace(SubNonWord(Strip(Lower(s))))

normalize_text(s) == Strip(CollapseSpace(SubNonWord(Strip(Lower(s)))))

\* s.split(" "): the pieces between single spaces, empty pieces included.
RECURSIVE SplitSpace(_, _)
SplitSpace(s, cur) ==
    IF s = <<>> THEN <<cur>>
    ELSE IF Head(s) = " "
         THEN <<cur>> \o SplitSpace(Tail(s), <<>>)
         ELSE SplitSpace(Tail(s), Append(cur, Head(s)))

\* tokenize dropping a token that occurred before.
tokenize_Unique(s) ==
    LET ts == SelectSeq(SplitSpace(normalize_text(s), <<>>), LAMBDA t : t # <<>>)
        first == SelectSeq([k \in 1..Len(ts) |-> k],
                           LAMBDA k : \A j \in 1..(k - 1) : ts[j] # ts[k])
    IN  [i \in 1..Len(first) |-> ts[first[i]]]

tokenize(s) == SelectSeq(SplitSpace(normalize_text(s), <<>>), LAMBDA t : t # <<>>)

\* str.startswith
StartsWith(t, q) == Len(q) <= Len(t) /\ SubSeq(t, 1, Len(q)) = q

\* q in t, for str
Contains(t, q) ==
    \E i \in 0..(Len(t) - Len(q)) : Slice(t, i, i + Len(q)) = q

\* x in list
InList(x, l) == \E k \in 1..Len(l) : l[k] = x

---------------------------------------------------------------------------
(* difflib.SequenceMatcher(None, a, b).ratio(), without junk (isjunk is    *)
(* None and autojunk only acts on texts of 200 characters or more).        *)

\* Length of the common block of a and b starting at 0-based i and j,
\* inside a[..ahi) and b[..bhi).
RECURSIVE BlockLen(_, _, _, _, _, _)
BlockLen(a, b, i, j, ahi, bhi) ==
    IF i < ahi /\ j < bhi /\ a[i + 1] = b[j + 1]
    THEN 1 + BlockLen(a, b, i + 1, j + 1, ahi, bhi)
    ELSE 0

\* find_longest_match: the longest block; of those the earliest in a; of
\* those the earliest in b.  <<alo, blo, 0>> when nothing matches.
find_longest_match(a, b, alo, ahi, blo, bhi) ==
    LET cand == {<<i, j>> : i \in alo..(ahi - 1), j \in blo..(bhi - 1)}
        size(p) == BlockLen(a, b, p[1], p[2], ahi, bhi)
        best == IF cand = {} THEN 0
                ELSE CHOOSE k \in 0..Min(ahi - alo, bhi - blo) :
                        /\ \E p \in cand : size(p) = k
                        /\ \A p \in cand : size(p) <= k
    IN  IF best = 0 THEN <<alo, blo, 0>>
        ELSE LET p == CHOOSE p \in cand :
                        /\ size(p) = best
                        /\ \A r \in cand : size(r) = best =>
                              \/ p[1] < r[1]
                              \/ (p[1] = r[1] /\ p[2] <= r[2])
             IN  <<p[1], p[2], best>>

\* Sum of the sizes of get_matching_blocks(): the longest block, then the
\* same on what lies left of it and on what lies right of it.
RECURSIVE MatchCount(_, _, _, _, _, _)
MatchCount(a, b, alo, ahi, blo, bhi) ==
    LET m == find_longest_match(a, b, alo, ahi, blo, bhi)
    IN  IF m[3] = 0 THEN 0
        ELSE m[3]
             + MatchCount(a, b, alo, m[1], blo, m[2])
             + MatchCount(a, b, m[1] + m[3], ahi, m[2] + m[3], bhi)

RECURSIVE Gcd(_, _)
Gcd(a, b) == IF b = 0 THEN a ELSE Gcd(b, a % b)

\* The rational n/d in lowest terms (d > 0, n >= 0).
Rat(n, d) == LET g == Gcd(n, d) IN [num |-> n \div g, den |-> d \div g]

RatLess(x, y) == x.num * y.den < y.num * x.den
RatLeq(x, y) == x.num * y.den <= y.num * x.den

\* similarity(a, b): 0.0 when either is empty, else ratio() = 2.0 * M / T.
similarity(a, b) ==
    IF a = <<>> \/ b = <<>> THEN Rat(0, 1)
    ELSE Rat(2 * MatchCount(a, b, 0, Len(a), 0, Len(b)), Len(a) + Len(b))

---------------------------------------------------------------------------
(* Record stores.  A line of a store is a record [kind, title, url]:       *)
(*   "blank"      empty or whitespace only                                 *)
(*   "badjson"    json.loads raises JSONDecodeError                        *)
(*   "nonobject"  valid JSON that is not an object                         *)
(*   "object"     a JSON object; title and url are its fields              *)
(* A field is [kind, val]: "absent" (the key is missing), "nonstr" (a      *)
(* value that is not a string) or "str" with the text val.                 *)

Absent == [kind |-> "absent", val |-> <<>>]
NonStr == [kind |-> "nonstr", val |-> <<>>]
Str(s) == [kind |-> "str", val |-> s]

BlankLine == [kind |-> "blank", title |-> Absent, url |-> Absent]
BadJsonLine == [kind |-> "badjson", title |-> Absent, url |-> Absent]
NonObjectLine == [kind |-> "nonobject", title |-> Absent, url |-> Absent]
ObjectLine(t, u) == [kind |-> "object", title |-> t, url |-> u]

HANDSPEAK_DICT_PATH == "handspeak"
LIFEPRINT_DICT_PATH == "lifeprint"

\* Python's order of the two source tags: "handspeak" < "lifeprint".
SourceRank(src) == IF src = "handspeak" THEN 1 ELSE 2

\* Entry(source, title, url).  line is the position of the record in its
\* store: the identity of the Entry object, which the code does not store.
Entry(src, t, u, n) == [source |-> src, title |-> t, url |-> u, line |-> n]

\* Entry.norm_title
norm_title(e) == normalize_text(e.title)

\* iter_jsonl without its "except FileNotFoundError".
IterRaises_NoCatch(status) == status \in {"missing", "unreadable"}

\* Whether iter_jsonl raises on this store: open() or the decoding of the
\* file fails with anything but FileNotFoundError.
IterRaises(status) == status = "unreadable"

\* iter_jsonl: the positions of the lines it yields as dicts, in file
\* order; nothing for a missing file.
iter_jsonl(status, lines) ==
    IF status # "present" THEN <<>>
    ELSE SelectSeq([k \in 1..Len(lines) |-> k],
                   LAMBDA k : lines[k].kind = "object")

\* The record test without its checks of url.
ValidRecord_NoUrlCheck(obj) ==
    /\ obj.title.kind = "str"
    /\ obj.title.val # <<>>

\* The test of lines 90 and 96: both fields are strings and both are truthy.
ValidRecord(obj) ==
    /\ obj.title.kind = "str"
    /\ obj.url.kind = "str"
    /\ obj.title.val # <<>>
    /\ obj.url.val # <<>>

\* One of the two loops of load_entries.
LoadStore(src, status, lines) ==
    LET objs == iter_jsonl(status, lines)
        good == SelectSeq(objs, LAMBDA k : ValidRecord(lines[k]))
    IN  [i \in 1..Len(good) |->
            Entry(src, lines[good[i]].title.val, lines[good[i]].url.val, good[i])]

\* load_entries reading the lifeprint store first.
load_entries_LifeprintFirst(hs, hl, ls, ll) ==
    LoadStore(LIFEPRINT_DICT_PATH, ls, ll) \o LoadStore(HANDSPEAK_DICT_PATH, hs, hl)

load_entries(hs, hl, ls, ll) ==
    LoadStore(HANDSPEAK_DICT_PATH, hs, hl) \o LoadStore(LIFEPRINT_DICT_PATH, ls, ll)

\* Whether load_entries raises: one of its two iter_jsonl calls does.
LoadRaises(hs, ls) == IterRaises(hs) \/ IterRaises(ls)

---------------------------------------------------------------------------
(* Ranking of one entry.                                                   *)

ExactScore == Rat(100, 100)
PrefixScore == Rat(92, 100)
TokensScore == Rat(88, 100)
SubstringScore == Rat(75, 100)
\* sim >= 0.60
SimThreshold_Low == Rat(60, 100)

\* sim >= 0.85
SimThreshold_High == Rat(85, 100)

\* sim >= 0.72
SimThreshold == Rat(72, 100)

\* 0.50 + (sim * 0.70)
SimScore_WrongFactor(sim) == Rat(50 * sim.den + 70 * sim.num, 100 * sim.den)

\* 0.50 + (sim * 0.40)
SimScore(sim) == Rat(50 * sim.den + 40 * sim.num, 100 * sim.den)

\* f"{sim:.2f}" as hundredths: the nearest hundredth, a tie going to the
\* even one.
Hundredths(sim) ==
    LET q == (100 * sim.num) \div sim.den
        r2 == 2 * ((100 * sim.num) % sim.den)
    IN  IF r2 > sim.den \/ (r2 = sim.den /\ q % 2 = 1) THEN q + 1 ELSE q

\* The reason label: its tier text and, for "similarity", the two decimals.
Reason(text, h) == [text |-> text, hundredths |-> h]

NoEntry == Entry("none", <<>>, <<>>, 0)
None == [matched |-> FALSE, entry |-> NoEntry, score |-> Rat(0, 1),
         reason |-> Reason("none", 0)]
RankedResult(e, sc, why) ==
    [matched |-> TRUE, entry |-> e, score |-> sc, reason |-> why]

\* rank_entry without the exact-match tier.
rank_entry_NoExact(query_norm, query_tokens, entry) ==
    LET title_norm == norm_title(entry)
        title_tokens == tokenize(entry.title)
        sim == similarity(query_norm, title_norm)
    IN  IF title_norm = <<>> THEN None
        ELSE IF Len(query_norm) >= 3 /\ Len(title_norm) <= 1 THEN None
        ELSE IF StartsWith(title_norm, query_norm)
            THEN RankedResult(entry, PrefixScore, Reason("prefix match", 0))
        ELSE IF /\ query_tokens # <<>>
                /\ \A k \in 1..Len(query_tokens) : InList(query_tokens[k], title_tokens)
            THEN RankedResult(entry, TokensScore, Reason("all query tokens present", 0))
        ELSE IF Contains(title_norm, query_norm)
            THEN RankedResult(entry, SubstringScore, Reason("substring match", 0))
        ELSE IF RatLeq(SimThreshold, sim)
            THEN RankedResult(entry, SimScore(sim), Reason("similarity", Hundredths(sim)))
        ELSE None

\* rank_entry scoring a substring match by the similarity formula.
rank_entry_SubstringBySim(query_norm, query_tokens, entry) ==
    LET title_norm == norm_title(entry)
        title_tokens == tokenize(entry.title)
        sim == similarity(query_norm, title_norm)
    IN  IF title_norm = <<>> THEN None
        ELSE IF Len(query_norm) >= 3 /\ Len(title_norm) <= 1 THEN None
        ELSE IF title_norm = query_norm
            THEN RankedResult(entry, ExactScore, Reason("exact match", 0))
        ELSE IF StartsWith(title_norm, query_norm)
            THEN RankedResult(entry, PrefixScore, Reason("prefix match", 0))
        ELSE IF /\ query_tokens # <<>>
                /\ \A k \in 1..Len(query_tokens) : InList(query_tokens[k], title_tokens)
            THEN RankedResult(entry, TokensScore, Reason("all query tokens present", 0))
        ELSE IF Contains(title_norm, query_norm)
            THEN RankedResult(entry, SimScore(sim), Reason("substring match", 0))
        ELSE IF RatLeq(SimThreshold, sim)
            THEN RankedResult(entry, SimScore(sim), Reason("similarity", Hundredths(sim)))
        ELSE None

\* rank_entry with the token tier tried before the prefix tier.
rank_entry_TokensFirst(query_norm, query_tokens, entry) ==
    LET title_norm == norm_title(entry)
        title_tokens == tokenize(entry.title)
        sim == similarity(query_norm, title_norm)
    IN  IF title_norm = <<>> THEN None
        ELSE IF Len(query_norm) >= 3 /\ Len(title_norm) <= 1 THEN None
        ELSE IF title_norm = query_norm
            THEN RankedResult(entry, ExactScore, Reason("exact match", 0))
        ELSE IF /\ query_tokens # <<>>
                /\ \A k \in 1..Len(query_tokens) : InList(query_tokens[k], title_tokens)
            THEN RankedResult(entry, TokensScore, Reason("all query tokens present", 0))
        ELSE IF StartsWith(title_norm, query_norm)
            THEN RankedResult(entry, PrefixScore, Reason("prefix match", 0))
        ELSE IF Contains(title_norm, query_norm)
            THEN RankedResult(entry, SubstringScore, Reason("substring match", 0))
        ELSE IF RatLeq(SimThreshold, sim)
            THEN RankedResult(entry, SimScore(sim), Reason("similarity", Hundredths(sim)))
        ELSE None

\* rank_entry without the short-title filter of line 120.
rank_entry_NoShortFilter(query_norm, query_tokens, entry) ==
    LET title_norm == norm_title(entry)
        title_tokens == tokenize(entry.title)
        sim == similarity(query_norm, title_norm)
    IN  IF title_norm = <<>> THEN None
        ELSE IF title_norm = query_norm
            THEN RankedResult(entry, ExactScore, Reason("exact match", 0))
        ELSE IF StartsWith(title_norm, query_norm)
            THEN RankedResult(entry, PrefixScore, Reason("prefix match", 0))
        ELSE IF /\ query_tokens # <<>>
                /\ \A k \in 1..Len(query_tokens) : InList(query_tokens[k], title_tokens)
            THEN RankedResult(entry, TokensScore, Reason("all query tokens present", 0))
        ELSE IF Contains(title_norm, query_norm)
            THEN RankedResult(entry, SubstringScore, Reason("substring match", 0))
        ELSE IF RatLeq(SimThreshold, sim)
            THEN RankedResult(entry, SimScore(sim), Reason("similarity", Hundredths(sim)))
        ELSE None

\* rank_entry with the short-title filter of line 120 after the token test.
rank_entry_FilterAfterTokens(query_norm, query_tokens, entry) ==
    LET title_norm == norm_title(entry)
        title_tokens == tokenize(entry.title)
        sim == similarity(query_norm, title_norm)
    IN  IF title_norm = <<>> THEN None
        ELSE IF title_norm = query_norm
            THEN RankedResult(entry, ExactScore, Reason("exact match", 0))
        ELSE IF StartsWith(title_norm, query_norm)
            THEN RankedResult(entry, PrefixScore, Reason("prefix match", 0))
        ELSE IF /\ query_tokens # <<>>
                /\ \A k \in 1..Len(query_tokens) : InList(query_tokens[k], title_tokens)
            THEN RankedResult(entry, TokensScore, Reason("all query tokens present", 0))
        ELSE IF Len(query_norm) >= 3 /\ Len(title_norm) <= 1 THEN None
        ELSE IF Contains(title_norm, query_norm)
            THEN RankedResult(entry, SubstringScore, Reason("substring match", 0))
        ELSE IF RatLeq(SimThreshold, sim)
            THEN RankedResult(entry, SimScore(sim), Reason("similarity", Hundredths(sim)))
        ELSE None

\* rank_entry with the substring test (line 134) ahead of the token test.
rank_entry_SubstringFirst(query_norm, query_tokens, entry) ==
    LET title_norm == norm_title(entry)
        title_tokens == tokenize(entry.title)
        sim == similarity(query_norm, title_norm)
    IN  IF title_norm = <<>> THEN None
        ELSE IF Len(query_norm) >= 3 /\ Len(title_norm) <= 1 THEN None
        ELSE IF title_norm = query_norm
            THEN RankedResult(entry, ExactScore, Reason("exact match", 0))
        ELSE IF StartsWith(title_norm, query_norm)
            THEN RankedResult(entry, PrefixScore, Reason("prefix match", 0))
        ELSE IF Contains(title_norm, query_norm)
            THEN RankedResult(entry, SubstringScore, Reason("substring match", 0))
        ELSE IF /\ query_tokens # <<>>
                /\ \A k \in 1..Len(query_tokens) : InList(query_tokens[k], title_tokens)
            THEN RankedResult(entry, TokensScore, Reason("all query tokens present", 0))
        ELSE IF RatLeq(SimThreshold, sim)
            THEN RankedResult(entry, SimScore(sim), Reason("similarity", Hundredths(sim)))
        ELSE None

rank_entry(query_norm, query_tokens, entry) ==
    LET title_norm == norm_title(entry)
        title_tokens == tokenize(entry.title)
        sim == similarity(query_norm, title_norm)
    IN  IF title_norm = <<>> THEN None
        ELSE IF Len(query_norm) >= 3 /\ Len(title_norm) <= 1 THEN None
        ELSE IF title_norm = query_norm
            THEN RankedResult(entry, ExactScore, Reason("exact match", 0))
        ELSE IF StartsWith(title_norm, query_norm)
            THEN RankedResult(entry, PrefixScore, Reason("prefix match", 0))
        ELSE IF /\ query_tokens # <<>>
                /\ \A k \in 1..Len(query_tokens) : InList(query_tokens[k], title_tokens)
            THEN RankedResult(entry, TokensScore, Reason("all query tokens present", 0))
        ELSE IF Contains(title_norm, query_norm)
            THEN RankedResult(entry, SubstringScore, Reason("substring match", 0))
        ELSE IF RatLeq(SimThreshold, sim)
            THEN RankedResult(entry, SimScore(sim), Reason("similarity", Hundredths(sim)))
        ELSE None

---------------------------------------------------------------------------
(* search.                                                                 *)

\* The sort key without the source tag.
KeyLess_ScoreOnly(x, y) == RatLess(x.score, y.score)

\* The sort key (r.score, r.entry.source) and Python's tuple order on it.
KeyLess(x, y) ==
    \/ RatLess(x.score, y.score)
    \/ (x.score = y.score /\ SourceRank(x.entry.source) < SourceRank(y.entry.source))

\* list.sort(key=..., reverse=True): descending, and stable (elements with
\* equal keys keep their order).
RECURSIVE InsertDesc(_, _)
InsertDesc(sorted, x) ==
    IF sorted = <<>> THEN <<x>>
    ELSE IF KeyLess(Head(sorted), x)
         THEN <<x>> \o sorted
         ELSE <<Head(sorted)>> \o InsertDesc(Tail(sorted), x)

RECURSIVE SortDesc(_)
SortDesc(l) ==
    IF l = <<>> THEN <<>>
    ELSE InsertDesc(SortDesc(SubSeq(l, 1, Len(l) - 1)), l[Len(l)])

\* ranked[:limit + 1]
Truncate_OffByOne(l, limit) == SubSeq(l, 1, Min(limit + 1, Len(l)))

\* ranked[:limit]
Truncate(l, limit) ==
    IF limit >= 0 THEN SubSeq(l, 1, Min(limit, Len(l)))
    ELSE SubSeq(l, 1, Max(0, Len(l) + limit))

\* The ranking loop appending every result twice.
RankAll_AppendTwice(query_norm, query_tokens, entries) ==
    LET all == [k \in 1..Len(entries) |-> rank_entry(query_norm, query_tokens, entries[k])]
    IN  SelectSeq(all \o all, LAMBDA rr : rr.matched)

\* Lines 156-160: the results of the entries that match, in entry order.
RankAll(query_norm, query_tokens, entries) ==
    LET all == [k \in 1..Len(entries) |-> rank_entry(query_norm, query_tokens, entries[k])]
    IN  SelectSeq(all, LAMBDA rr : rr.matched)

\* search ranking the entries its caller's earlier call loaded, when there
\* are any, in place of line 154.
Ranked_EntriesKept(query, hs, hl, ls, ll) ==
    LET query_norm == normalize_text(query)
        entries == IF histOn /\ prevEntries # <<>> THEN prevEntries
                   ELSE load_entries(hs, hl, ls, ll)
    IN  SortDesc(RankAll(query_norm, tokenize(query_norm), entries))

\* search ranking against the raw query in place of query_norm.
Ranked_RawQuery(query, hs, hl, ls, ll) ==
    SortDesc(RankAll(query, tokenize(query), load_entries(hs, hl, ls, ll)))

\* An ascending sort followed by ranked.reverse() in place of line 162:
\* results of equal key end in reverse order.
Ranked_ReversedTies(query, hs, hl, ls, ll) ==
    LET query_norm == normalize_text(query)
        l == RankAll(query_norm, tokenize(query_norm), load_entries(hs, hl, ls, ll))
    IN  SortDesc([k \in 1..Len(l) |-> l[Len(l) + 1 - k]])

\* The list search builds before it truncates (lines 153-162).
Ranked(query, hs, hl, ls, ll) ==
    LET query_norm == normalize_text(query)
    IN  SortDesc(RankAll(query_norm, tokenize(query_norm), load_entries(hs, hl, ls, ll)))

\* What search returns when it returns.
SearchResult(query, limit, hs, hl, ls, ll) ==
    IF normalize_text(query) = <<>> THEN <<>>
    ELSE Truncate(Ranked(query, hs, hl, ls, ll), limit)

\* search loading the entries before it tests the query.
SearchLoads_Always(query) == TRUE

\* Whether search opens the record stores, and whether it raises.
SearchLoads(query) == normalize_text(query) # <<>>
SearchRaises(query, hs, ls) == SearchLoads(query) /\ LoadRaises(hs, ls)

---------------------------------------------------------------------------
(* The report.  A report is a text whose elements are the literal pieces   *)
(* of the f-strings and the characters of the interpolated values; the     *)
(* newline is always an element of its own.                                *)

\* One character of repr() of a str: newline and tab are written as escapes.
\* (The raw queries hold no quote and no backslash, so repr quotes with '.)
ReprChar(c) ==
    CASE c = "\n" -> "\\n"
      [] c = "\t" -> "\\t"
      [] OTHER -> c

\* {query!r}
Repr(s) == <<"'">> \o [k \in 1..Len(s) |-> ReprChar(s[k])] \o <<"'">>

\* The query interpolated without !r.
QueryField_Raw(s) == s

\* The query as the two f-strings of lines 174 and 176 show it.
QueryField(s) == Repr(s)

Digit(d) ==
    CASE d = 0 -> "0" [] d = 1 -> "1" [] d = 2 -> "2" [] d = 3 -> "3"
      [] d = 4 -> "4" [] d = 5 -> "5" [] d = 6 -> "6" [] d = 7 -> "7"
      [] d = 8 -> "8" [] d = 9 -> "9"

\* f"{x:.2f}" for 0 <= x < 10, from x in hundredths.
Fmt2(h) == <<Digit(h \div 100), ".", Digit((h \div 10) % 10), Digit(h % 10)>>

\* {r.reason}
ReasonText(why) ==
    IF why.text = "similarity"
    THEN <<"similarity ">> \o Fmt2(why.hundredths)
    ELSE <<why.text>>

\* Lines 177-183: the line of one result.
ResultLine(r, include_reasons) ==
    <<"- [", r.entry.source, "] ">> \o r.entry.title \o <<": ">> \o r.entry.url
        \o (IF include_reasons
            THEN <<" (">> \o ReasonText(r.reason) \o <<", score=">>
                     \o Fmt2(Hundredths(r.score)) \o <<")">>
            ELSE <<>>)

\* "\n".join(lines)
RECURSIVE JoinLines(_)
JoinLines(lines) ==
    IF lines = <<>> THEN <<>>
    ELSE IF Len(lines) = 1 THEN lines[1]
    ELSE lines[1] \o <<"\n">> \o JoinLines(Tail(lines))

format_results(query, results, include_reasons) ==
    IF results = <<>>
    THEN <<"No matches found for ">> \o QueryField(query) \o <<".">>
    ELSE JoinLines(<<(<<"Results for ">> \o QueryField(query) \o <<":">>)>>
                   \o [k \in 1..Len(results) |-> ResultLine(results[k], include_reasons)])

\* " ".join(argv[1:])
RECURSIVE JoinSpace(_)
JoinSpace(args) ==
    IF args = <<>> THEN <<>>
    ELSE IF Len(args) = 1 THEN args[1]
    ELSE args[1] \o <<" ">> \o JoinSpace(Tail(args))

\* The limit main searches with (line 197).
MainLimit == 10

---------------------------------------------------------------------------
(* The state machine.  The record stores are written by the dictionary     *)
(* updaters, outside this engine; search reads them.  A search call is    *)
(* one atomic step (the engine is synchronous); the call variables hold    *)
(* what it returned until the caller drops the list, and the next step of  *)
(* an updater or the next call is taken after that.  The engine itself     *)
(* keeps nothing between calls.                                            *)

Sources == {HANDSPEAK_DICT_PATH, LIFEPRINT_DICT_PATH}
Limits == 1..MaxLimit

\* The lines the updaters may write in the system specification: a blank
\* line and four valid records, which the query "ab" matches by the exact,
\* similarity, substring and token tiers.
StoreLines ==
    { BlankLine,
      ObjectLine(Str(<<"A", "b">>), Str(<<"u">>)),
      ObjectLine(Str(<<"a", " ", "b">>), Str(<<"u">>)),
      ObjectLine(Str(<<"b", "a", "b">>), Str(<<"u">>)),
      ObjectLine(Str(<<"a", " ", "a", "b">>), Str(<<"u">>)) }

\* The raw queries of the system specification.
Queries ==
    { <<>>, <<" ", "!">>, <<"a", "b">>, <<"A", "B", " ">>,
      <<"a", "!", "b">>, <<"b">> }

\* The lines of the loader specification: every kind of line iter_jsonl
\* skips, every way a record fails the test of load_entries, records with
\* a whitespace-only field, and a valid record.
LoadLines ==
    { BlankLine, BadJsonLine, NonObjectLine,
      ObjectLine(Str(<<"A", "b">>), Absent),
      ObjectLine(NonStr, Str(<<"u">>)),
      ObjectLine(Str(<<"A", "b">>), Str(<<>>)),
      ObjectLine(Str(<<"A", "b">>), Str(<<" ">>)),
      ObjectLine(Str(<<" ">>), Str(<<"u">>)),
      ObjectLine(Str(<<"A", "b">>), Str(<<"u">>)) }

\* The raw queries of the loader specification.
LoadQueries == { <<"a", "b">>, <<"b">> }

\* The alphabet of the exhaustive ranking specification.
RankChars == {"a", "B", " ", "!"}

StatusOf(src) == IF src = HANDSPEAK_DICT_PATH THEN hsStatus ELSE lpStatus
LinesOf(src) == IF src = HANDSPEAK_DICT_PATH THEN hsLines ELSE lpLines

SetStore(src, status, lines) ==
    IF src = HANDSPEAK_DICT_PATH
    THEN hsStatus' = status /\ hsLines' = lines /\ UNCHANGED <<lpStatus, lpLines>>
    ELSE lpStatus' = status /\ lpLines' = lines /\ UNCHANGED <<hsStatus, hsLines>>

\* No search result is held by a caller and no run of main is being looked at.
Idle == callStatus = "idle" /\ mainStatus = "none"

\* Nothing called, reported or normalized yet.
NoCall ==
    /\ callStatus = "idle"
    /\ callQuery = <<>>
    /\ callLimit = 0
    /\ callLoaded = FALSE
    /\ callResult = <<>>
NoReport ==
    /\ fmtStatus = "none" /\ fmtReasons = FALSE /\ fmtText = <<>>
    /\ mainStatus = "none" /\ mainArgs = <<>> /\ mainReturn = 0
NoText == textStatus = "none" /\ textIn = <<>> /\ textNorm = <<>> /\ textTokens = <<>>
NoHistory == histOn = FALSE /\ prevEntries = <<>>
NoTwin == twinStatus = "none" /\ twinQuery = <<>> /\ twinResult = <<>>

\* No daily word posted and no invocation running; no update running.
NoDaily ==
    /\ dailyPc = [p \in 1..MaxInvocations |-> "idle"]
    /\ dailyHistory = <<>>
    /\ dailyToday = 1
    /\ dailySent = [d \in 1..MaxDays |-> 0]
NoUpdate ==
    /\ updStatus = "idle" /\ updStop = "none" /\ updResponses = <<>>
    /\ updMaxNew = 0 /\ updMax404 = 0 /\ updWrote = 0 /\ updMisses = 0 /\ updId = 0

Init ==
    /\ hsStatus = "missing" /\ hsLines = <<>>
    /\ lpStatus = "missing" /\ lpLines = <<>>
    /\ NoCall /\ NoReport /\ NoText /\ NoHistory /\ NoTwin /\ NoDaily /\ NoUpdate

\* An updater appends one line to a store, creating the file if missing.
AppendLine(src, line) ==
    /\ Idle
    /\ StatusOf(src) \in {"missing", "present"}
    /\ Len(hsLines) + Len(lpLines) < MaxLines
    /\ SetStore(src, "present", Append(LinesOf(src), line))
    /\ UNCHANGED <<callVars, reportVars, textVars, histVars, twinVars, sideVars>>

\* A line is removed from a store.
RemoveLine(src, k) ==
    /\ Idle
    /\ StatusOf(src) = "present"
    /\ k \in 1..Len(LinesOf(src))
    /\ SetStore(src, "present",
                SubSeq(LinesOf(src), 1, k - 1) \o SubSeq(LinesOf(src), k + 1, Len(LinesOf(src))))
    /\ UNCHANGED <<callVars, reportVars, textVars, histVars, twinVars, sideVars>>

\* A store file is deleted.
DeleteStore(src) ==
    /\ Idle
    /\ StatusOf(src) \in {"present", "unreadable"}
    /\ SetStore(src, "missing", <<>>)
    /\ UNCHANGED <<callVars, reportVars, textVars, histVars, twinVars, sideVars>>

\* A store becomes one that open() or the UTF-8 decoding fails on.
SpoilStore(src) ==
    /\ Idle
    /\ StatusOf(src) \in {"missing", "present"}
    /\ SetStore(src, "unreadable", <<>>)
    /\ UNCHANGED <<callVars, reportVars, textVars, histVars, twinVars, sideVars>>

\* search(query, limit=limit), as any caller runs it.
SearchCall(query, limit) ==
    /\ Idle
    /\ callQuery' = query
    /\ callLimit' = limit
    /\ callLoaded' = SearchLoads(query)
    /\ IF SearchRaises(query, hsStatus, lpStatus)
       THEN callStatus' = "raised" /\ callResult' = <<>>
       ELSE /\ callStatus' = "returned"
            /\ callResult' = SearchResult(query, limit, hsStatus, hsLines, lpStatus, lpLines)
    /\ UNCHANGED storeVars

\* A caller other than main calls search.
Search(query, limit) ==
    /\ SearchCall(query, limit)
    /\ UNCHANGED <<reportVars, textVars, histVars, twinVars, sideVars>>

\* A second search(query, limit=callLimit) while the list of the first is
\* held: the stores are the same for both.
SearchTwin(query) ==
    /\ callStatus = "returned"
    /\ mainStatus = "none"
    /\ fmtStatus = "none"
    /\ twinStatus = "none"
    /\ twinQuery' = query
    /\ IF SearchRaises(query, hsStatus, lpStatus)
       THEN twinStatus' = "raised" /\ twinResult' = <<>>
       ELSE /\ twinStatus' = "returned"
            /\ twinResult' = SearchResult(query, callLimit, hsStatus, hsLines, lpStatus, lpLines)
    /\ UNCHANGED <<storeVars, callVars, reportVars, textVars, histVars, sideVars>>

\* format_results(query, results, include_reasons=...) on what the call returned.
Format(include_reasons) ==
    /\ callStatus = "returned"
    /\ fmtStatus = "none"
    /\ mainStatus = "none"
    /\ fmtStatus' = "returned"
    /\ fmtReasons' = include_reasons
    /\ fmtText' = format_results(callQuery, callResult, include_reasons)
    /\ UNCHANGED <<mainStatus, mainArgs, mainReturn, storeVars, callVars, textVars, histVars, twinVars, sideVars>>

\* main(argv) with argv[1:] = args: the whole run of the harness.
Main(args) ==
    /\ Idle
    /\ mainStatus = "none"
    /\ mainArgs' = args
    /\ IF Len(args) < 1
       THEN /\ fmtStatus' = "printed"
            /\ fmtReasons' = FALSE
            /\ fmtText' = <<"Usage: python word-search.py <query>">>
            /\ mainStatus' = "returned"
            /\ mainReturn' = 2
            /\ UNCHANGED <<storeVars, callVars>>
       ELSE /\ SearchCall(JoinSpace(args), MainLimit)
            /\ IF SearchRaises(JoinSpace(args), hsStatus, lpStatus)
               THEN /\ mainStatus' = "raised"
                    /\ mainReturn' = 0
                    /\ fmtStatus' = "none" /\ fmtReasons' = FALSE /\ fmtText' = <<>>
               ELSE /\ mainStatus' = "returned"
                    /\ mainReturn' = 0
                    /\ fmtStatus' = "printed"
                    /\ fmtReasons' = TRUE
                    /\ fmtText' = format_results(JoinSpace(args), callResult', TRUE)
    /\ UNCHANGED <<textVars, histVars, twinVars, sideVars>>

\* The caller is done with the returned list (or has seen the exception),
\* or main has exited.
Discard ==
    /\ ~Idle
    /\ callStatus' = "idle"
    /\ callQuery' = <<>>
    /\ callLimit' = 0
    /\ callLoaded' = FALSE
    /\ callResult' = <<>>
    /\ fmtStatus' = "none" /\ fmtReasons' = FALSE /\ fmtText' = <<>>
    /\ mainStatus' = "none" /\ mainArgs' = <<>> /\ mainReturn' = 0
    /\ prevEntries' = IF histOn /\ callStatus = "returned" /\ callLoaded
                      THEN load_entries(hsStatus, hsLines, lpStatus, lpLines)
                      ELSE prevEntries
    /\ twinStatus' = "none" /\ twinQuery' = <<>> /\ twinResult' = <<>>
    /\ UNCHANGED <<storeVars, textVars, histOn, sideVars>>

\* The steps over the lines and the raw queries given.
NextOver(lines, queries) ==
    \/ \E src \in Sources, line \in lines : AppendLine(src, line)
    \/ \E src \in Sources, k \in 1..MaxLines : RemoveLine(src, k)
    \/ \E src \in Sources : DeleteStore(src)
    \/ \E src \in Sources : SpoilStore(src)
    \/ \E query \in queries, limit \in Limits : Search(query, limit)
    \/ Discard

Next == NextOver(StoreLines, Queries)

Spec == Init /\ [][Next]_vars

\* The loader specification: the same steps over the lines of LoadLines.
NextLoad == NextOver(LoadLines, LoadQueries)

SpecLoad == Init /\ [][NextLoad]_vars

\* The exhaustive ranking specification: one valid record, every raw title
\* and every raw query up to MaxLen characters.
InitRank ==
    /\ \E t \in Texts(RankChars, MaxLen) :
          hsLines = <<ObjectLine(Str(t), Str(<<"u">>))>>
    /\ hsStatus = "present"
    /\ lpStatus = "missing" /\ lpLines = <<>>
    /\ NoCall /\ NoReport /\ NoText /\ NoHistory /\ NoTwin /\ NoDaily /\ NoUpdate

NextRank ==
    \/ \E query \in Texts(RankChars, MaxLen), limit \in Limits : Search(query, limit)
    \/ Discard

SpecRank == InitRank /\ [][NextRank]_vars

\* The report specification: searches, their reports, and runs of main,
\* over two valid records of which one has a newline in its title.
MaxArgs == 2
ReportLines ==
    { ObjectLine(Str(<<"A", "b">>), Str(<<"u">>)),
      ObjectLine(Str(<<"a", "\n", "b">>), Str(<<"u">>)) }
ReportQueries == { <<"a", "b">>, <<"B", "\n", "1">>, <<"!">> }
ArgTexts == { <<>>, <<"a">>, <<"b">> }
ArgLists == UNION {[1..k -> ArgTexts] : k \in 0..MaxArgs}

NextReport ==
    \/ NextOver(ReportLines, ReportQueries)
    \/ \E include_reasons \in BOOLEAN : Format(include_reasons)
    \/ \E args \in ArgLists : Main(args)

SpecReport == Init /\ [][NextReport]_vars

\* The specification of successive calls: the same steps over two records
\* that the one query matches, with the entries of the caller's earlier
\* call kept for comparison.
CallLines ==
    { ObjectLine(Str(<<"A", "b">>), Str(<<"u">>)),
      ObjectLine(Str(<<"b", "a", "b">>), Str(<<"u">>)) }
CallQueries == { <<"a", "b">> }

InitCalls ==
    /\ hsStatus = "missing" /\ hsLines = <<>>
    /\ lpStatus = "missing" /\ lpLines = <<>>
    /\ NoCall /\ NoReport /\ NoText /\ NoTwin /\ NoDaily /\ NoUpdate
    /\ histOn = TRUE
    /\ prevEntries = <<>>

NextCalls == NextOver(CallLines, CallQueries)

SpecCalls == InitCalls /\ [][NextCalls]_vars

\* The specification of two calls on the same stores: raw queries that
\* differ in case, punctuation and spacing, with the normalized forms "ab"
\* and "a b".
TwinLines ==
    { ObjectLine(Str(<<"A", "b">>), Str(<<"u">>)),
      ObjectLine(Str(<<"a", " ", "b">>), Str(<<"u">>)) }
TwinQueries ==
    { <<"a", "b">>, <<"A", "B">>, <<"a", " ", "b">>, <<"a", "!", "b">>,
      <<" ", "A", "\t", "b">> }

NextTwin ==
    \/ NextOver(TwinLines, TwinQueries)
    \/ \E query \in TwinQueries : SearchTwin(query)

SpecTwin == Init /\ [][NextTwin]_vars

---------------------------------------------------------------------------
(* The daily word of one guild (src/commands.py, _post_daily_word).  Each  *)
(* invocation is a coroutine on one event loop: it runs without            *)
(* interruption from its start to "await channel.send(message)", is        *)
(* suspended there while other coroutines run, and runs from the           *)
(* completion of the send to its return.                                   *)

\* The coroutines that may run _post_daily_word for the guild at once: a
\* daily-enable command, the scheduled post.
Invocations == 1..MaxInvocations
\* The UTC days modelled.
Days == 1..MaxDays

\* has_posted_today(history): some entry is dated today.
has_posted_today(history, today) == \E k \in 1..Len(history) : history[k] = today

\* Lines 76-96: read the history, test it, build the post; has_word is
\* whether build_daily_word_post found a word to use.
PostStart(p, has_word) ==
    /\ dailyPc[p] = "idle"
    /\ dailyPc' = [dailyPc EXCEPT ![p] =
                      IF has_posted_today(dailyHistory, dailyToday) THEN "false"
                      ELSE IF ~has_word THEN "false"
                      ELSE "sending"]
    /\ UNCHANGED <<dailyHistory, dailyToday, dailySent>>
    /\ UNCHANGED <<storeVars, callVars, reportVars, textVars, histVars, twinVars, updVars>>

\* Lines 99-105: the send completes, the history entries stamped now are
\* appended (one entry stands for the entries of one post), True is returned.
PostSent(p) ==
    /\ dailyPc[p] = "sending"
    /\ dailySent' = [dailySent EXCEPT ![dailyToday] = @ + 1]
    /\ dailyHistory' = Append(dailyHistory, dailyToday)
    /\ dailyPc' = [dailyPc EXCEPT ![p] = "true"]
    /\ UNCHANGED dailyToday
    /\ UNCHANGED <<storeVars, callVars, reportVars, textVars, histVars, twinVars, updVars>>

\* Line 99: channel.send raises; nothing is sent and nothing is appended.
PostSendFails(p) ==
    /\ dailyPc[p] = "sending"
    /\ dailyPc' = [dailyPc EXCEPT ![p] = "raised"]
    /\ UNCHANGED <<dailyHistory, dailyToday, dailySent>>
    /\ UNCHANGED <<storeVars, callVars, reportVars, textVars, histVars, twinVars, updVars>>

\* The caller has the outcome; the coroutine may be started again.
PostReturn(p) ==
    /\ dailyPc[p] \in {"true", "false", "raised"}
    /\ dailyPc' = [dailyPc EXCEPT ![p] = "idle"]
    /\ UNCHANGED <<dailyHistory, dailyToday, dailySent>>
    /\ UNCHANGED <<storeVars, callVars, reportVars, textVars, histVars, twinVars, updVars>>

\* Midnight UTC passes.
NextDay ==
    /\ dailyToday < MaxDays
    /\ dailyToday' = dailyToday + 1
    /\ UNCHANGED <<dailyPc, dailyHistory, dailySent>>
    /\ UNCHANGED <<storeVars, callVars, reportVars, textVars, histVars, twinVars, updVars>>

NextDaily ==
    \/ \E p \in Invocations, has_word \in BOOLEAN : PostStart(p, has_word)
    \/ \E p \in Invocations : PostSent(p)
    \/ \E p \in Invocations : PostSendFails(p)
    \/ \E p \in Invocations : PostReturn(p)
    \/ NextDay

SpecDaily == Init /\ [][NextDaily]_vars

---------------------------------------------------------------------------
(* The incremental update of the handspeak store (src/web_search.py,       *)
(* update_handspeak_dict): one synchronous loop, one step per iteration,   *)
(* against a server that answers each request with a page, a 404 or a      *)
(* request error.                                                          *)

Responses == {"ok", "404", "error"}

\* Line 161 testing wrote > max_new.
ReachedMax_Late(wrote, max_new) == wrote > max_new

\* Line 161: wrote >= max_new (max_new is an integer here, never None).
ReachedMax(wrote, max_new) == wrote >= max_new

\* Lines 152-157: the call begins; the store holds no id yet, so the first
\* id probed is 1.
UpdateStart(max_new, max_consecutive_404) ==
    /\ updStatus = "idle"
    /\ updStatus' = "running"
    /\ updMaxNew' = max_new
    /\ updMax404' = max_consecutive_404
    /\ updWrote' = 0
    /\ updMisses' = 0
    /\ updId' = 1
    /\ UNCHANGED <<updStop, updResponses>>
    /\ UNCHANGED <<storeVars, callVars, reportVars, textVars, histVars, twinVars, dailyVars>>

\* Lines 159-189: one iteration of the loop, the server answering resp when
\* the iteration gets as far as the request.
UpdateIterate(resp) ==
    /\ updStatus = "running"
    /\ IF ReachedMax(updWrote, updMaxNew)
       THEN /\ updStatus' = "done" /\ updStop' = "max_new"
            /\ UNCHANGED <<updWrote, updMisses, updId, updResponses, storeVars>>
       ELSE /\ updResponses' = Append(updResponses, resp)
            /\ CASE resp = "error" ->
                      /\ updStatus' = "done" /\ updStop' = "error"
                      /\ UNCHANGED <<updWrote, updMisses, updId, storeVars>>
                 [] resp = "404" ->
                      /\ updMisses' = updMisses + 1
                      /\ IF updMisses + 1 >= updMax404
                         THEN updStatus' = "done" /\ updStop' = "404s" /\ UNCHANGED updId
                         ELSE updId' = updId + 1 /\ UNCHANGED <<updStatus, updStop>>
                      /\ UNCHANGED <<updWrote, storeVars>>
                 [] resp = "ok" ->
                      /\ updMisses' = 0
                      /\ hsStatus' = "present"
                      /\ hsLines' = Append(hsLines, ObjectLine(Str(<<"A", "b">>), Str(<<"u">>)))
                      /\ updWrote' = updWrote + 1
                      /\ updId' = updId + 1
                      /\ UNCHANGED <<updStatus, updStop, lpStatus, lpLines>>
    /\ UNCHANGED <<updMaxNew, updMax404>>
    /\ UNCHANGED <<callVars, reportVars, textVars, histVars, twinVars, dailyVars>>

NextUpdate ==
    \/ \E max_new \in -1..MaxNew, max_consecutive_404 \in 1..MaxMisses :
          UpdateStart(max_new, max_consecutive_404)
    \/ \E resp \in Responses : UpdateIterate(resp)

\* The loop runs on until it returns: every request is answered or times
\* out as a request error.
SpecUpdate ==
    Init /\ [][NextUpdate]_vars /\ WF_vars(\E resp \in Responses : UpdateIterate(resp))

\* The text specification: every raw text of up to MaxLen characters over
\* TextChars is normalized and tokenized.
TextChars == {"a", "B", "1", " ", "\t", "\n", "!"}

InitText ==
    /\ hsStatus = "missing" /\ hsLines = <<>>
    /\ lpStatus = "missing" /\ lpLines = <<>>
    /\ NoCall /\ NoReport /\ NoHistory /\ NoTwin /\ NoDaily /\ NoUpdate
    /\ textStatus = "raw"
    /\ textIn \in Texts(TextChars, MaxLen)
    /\ textNorm = <<>>
    /\ textTokens = <<>>

\* normalize_text(s) and tokenize(s) on the raw text.
Normalize ==
    /\ textStatus = "raw"
    /\ textStatus' = "done"
    /\ textNorm' = normalize_text(textIn)
    /\ textTokens' = tokenize(textIn)
    /\ UNCHANGED <<textIn, storeVars, callVars, reportVars, histVars, twinVars, sideVars>>

NextText == Normalize

SpecText == InitText /\ [][NextText]_vars

---------------------------------------------------------------------------
(* Properties.                                                             *)

Returned == callStatus = "returned"
QueryNorm == normalize_text(callQuery)

\* What load_entries gives on the stores as they are.
Loaded == load_entries(hsStatus, hsLines, lpStatus, lpLines)

\* The record line an entry was built from.
LineOfEntry(e) == LinesOf(e.source)[e.line]

\* The positions in Loaded of the entries whose normalized title is the
\* normalized query.
ExactEntries == {i \in 1..Len(Loaded) : norm_title(Loaded[i]) = QueryNorm}

IsExactResult(r) == r.score = [num |-> 1, den |-> 1] /\ r.reason.text = "exact match"

\* C1 as stated: after a search with a non-empty normalized query, every
\* loaded entry whose normalized title equals the normalized query has a
\* result in the returned list, with score 1.00 and reason "exact match".
C1_ExactAlwaysReturned ==
    (Returned /\ QueryNorm # <<>>) =>
        \A i \in ExactEntries :
            \E k \in 1..Len(callResult) :
                callResult[k].entry = Loaded[i] /\ IsExactResult(callResult[k])

\* C1 amended: every such entry has a result with score 1.00 and reason
\* "exact match" in the returned list whenever at most limit loaded entries
\* have that normalized title; and a returned result of such an entry always
\* carries score 1.00 and reason "exact match".
C1_ExactReturnedWithinLimit ==
    (Returned /\ QueryNorm # <<>>) =>
        /\ Cardinality(ExactEntries) <= callLimit =>
              \A i \in ExactEntries :
                  \E k \in 1..Len(callResult) :
                      callResult[k].entry = Loaded[i] /\ IsExactResult(callResult[k])
        /\ \A k \in 1..Len(callResult) :
              norm_title(callResult[k].entry) = QueryNorm => IsExactResult(callResult[k])

\* Every exact match returned, ahead of a result of another tier.
C1_Witness ==
    /\ Returned /\ QueryNorm # <<>>
    /\ ExactEntries # {}
    /\ Cardinality(ExactEntries) <= callLimit
    /\ Len(callResult) > Cardinality(ExactEntries)

\* The title of the one record of the ranking specification, normalized.
OnlyTitleNorm == normalize_text(hsLines[1].title.val)

IsProperPrefix(q, t) ==
    /\ Len(q) < Len(t)
    /\ \A k \in 1..Len(q) : t[k] = q[k]

\* C2: when the normalized query is non-empty and is a proper prefix of the
\* normalized title, the entry is ranked with score 0.92 and reason "prefix
\* match": neither filter and no other tier takes it.
C2_PrefixScore ==
    (Returned /\ QueryNorm # <<>> /\ IsProperPrefix(QueryNorm, OnlyTitleNorm)) =>
        /\ Len(callResult) = 1
        /\ callResult[1].score = [num |-> 23, den |-> 25]
        /\ callResult[1].reason = Reason("prefix match", 0)

\* A prefix match whose title also holds every query token: query "a",
\* title "a b".
C2_Witness ==
    /\ Returned /\ QueryNorm # <<>>
    /\ IsProperPrefix(QueryNorm, OnlyTitleNorm)
    /\ \A k \in 1..Len(tokenize(QueryNorm)) :
          InList(tokenize(QueryNorm)[k], tokenize(OnlyTitleNorm))
    /\ Len(callResult) = 1

\* Priority of the tier a reason names.
TierPriority(reason) ==
    CASE reason.text = "exact match" -> 5
      [] reason.text = "prefix match" -> 4
      [] reason.text = "all query tokens present" -> 3
      [] reason.text = "substring match" -> 2
      [] OTHER -> 1

\* C3: of two results of one search, the one matched by the tier of higher
\* priority has a score greater than or equal to the other's.
C3_TierMonotonic ==
    Returned =>
        \A i, j \in 1..Len(callResult) :
            TierPriority(callResult[i].reason) > TierPriority(callResult[j].reason)
                => RatLeq(callResult[j].score, callResult[i].score)

\* C4: search returns exactly the first min(limit, m) elements of the
\* sorted list of all m matches: never more than limit, and every match
\* left out scores no more than every match returned.
C4_TruncatedToLimit ==
    Returned =>
        /\ Len(callResult) <= callLimit
        /\ QueryNorm # <<>> =>
              LET all == Ranked(callQuery, hsStatus, hsLines, lpStatus, lpLines)
                  n == IF callLimit <= Len(all) THEN callLimit ELSE Len(all)
              IN  /\ Len(callResult) = n
                  /\ \A k \in 1..n : callResult[k] = all[k]
                  /\ \A k \in (n + 1)..Len(all) : \A j \in 1..n :
                        RatLeq(all[k].score, callResult[j].score)

\* A search that left out a match of strictly lower score.
C4_Witness ==
    /\ Returned /\ QueryNorm # <<>>
    /\ LET all == Ranked(callQuery, hsStatus, hsLines, lpStatus, lpLines)
       IN  /\ Len(all) > callLimit
           /\ Len(callResult) = callLimit
           /\ RatLess(all[Len(all)].score, callResult[1].score)

\* C5: the returned list is in descending order of score, and of two
\* results with equal score the one with the greater source tag comes
\* first ("lifeprint" before "handspeak").
C5_SortedByScoreThenSource ==
    Returned =>
        \A i, j \in 1..Len(callResult) :
            i < j =>
                /\ callResult[j].score.num * callResult[i].score.den
                      <= callResult[i].score.num * callResult[j].score.den
                /\ callResult[i].score = callResult[j].score =>
                      ~(callResult[i].entry.source = "handspeak"
                        /\ callResult[j].entry.source = "lifeprint")

\* Two results of equal score, the lifeprint one before the handspeak one.
C5_Witness ==
    /\ Returned
    /\ Len(callResult) = 2
    /\ callResult[1].score = callResult[2].score
    /\ callResult[1].entry.source = "lifeprint"
    /\ callResult[2].entry.source = "handspeak"

\* C6: a query whose normalized form is empty makes search return the
\* empty list, without raising and without opening the record stores.
C6_EmptyQueryShortCircuit ==
    (~Idle /\ QueryNorm = <<>>) =>
        /\ callStatus = "returned"
        /\ callResult = <<>>
        /\ ~callLoaded

\* A punctuation-and-space query searched while a store is unreadable and
\* the other holds a valid record.
C6_Witness ==
    /\ Returned
    /\ callQuery # <<>> /\ QueryNorm = <<>>
    /\ hsStatus = "unreadable"
    /\ Loaded # <<>>

\* C7: search never raises, whatever the query, the limit and the state
\* of the two record stores.
C7_SearchNeverRaises == callStatus # "raised"

\* Whether a line is a JSON object whose title and url are both strings.
HasBothStrings(line) ==
    /\ line.kind = "object"
    /\ line.title.kind = "str"
    /\ line.url.kind = "str"

\* C8: a record line that lacks url or title, or has either as a
\* non-string, produces no Entry and appears in no search result: every
\* loaded entry and every result comes from an object line with both fields
\* strings, and carries that line's title and url.
C8_MalformedNeverLoaded ==
    /\ \A i \in 1..Len(Loaded) :
          /\ HasBothStrings(LineOfEntry(Loaded[i]))
          /\ Loaded[i].title = LineOfEntry(Loaded[i]).title.val
          /\ Loaded[i].url = LineOfEntry(Loaded[i]).url.val
    /\ Returned =>
          \A k \in 1..Len(callResult) :
              /\ HasBothStrings(LineOfEntry(callResult[k].entry))
              /\ callResult[k].entry.title = LineOfEntry(callResult[k].entry).title.val
              /\ callResult[k].entry.url = LineOfEntry(callResult[k].entry).url.val

\* A search whose query equals, normalized, the title of a record without
\* url, and that returned another record.
C8_Witness ==
    /\ Returned /\ callResult # <<>>
    /\ \E src \in Sources : \E k \in 1..Len(LinesOf(src)) :
          /\ LinesOf(src)[k].kind = "object"
          /\ LinesOf(src)[k].url.kind = "absent"
          /\ LinesOf(src)[k].title.kind = "str"
          /\ normalize_text(LinesOf(src)[k].title.val) = QueryNorm

\* C9: no Entry with a whitespace-only title or a whitespace-only url is
\* constructed, and no search result carries one.
C9_NoBlankFields ==
    /\ \A i \in 1..Len(Loaded) :
          Strip(Loaded[i].title) # <<>> /\ Strip(Loaded[i].url) # <<>>
    /\ \A k \in 1..Len(callResult) :
          /\ Strip(callResult[k].entry.title) # <<>>
          /\ Strip(callResult[k].entry.url) # <<>>

\* The positions of the valid records of a store: JSON objects whose title
\* and url are non-empty strings.
ValidPositions(lines) ==
    {k \in 1..Len(lines) :
        /\ HasBothStrings(lines[k])
        /\ Len(lines[k].title.val) > 0
        /\ Len(lines[k].url.val) > 0}

\* Whether entries are exactly the valid records of lines, tagged src, in
\* file order.
IsLoadOf(entries, src, lines) ==
    /\ Len(entries) = Cardinality(ValidPositions(lines))
    /\ \A i \in 1..Len(entries) :
          /\ entries[i].source = src
          /\ entries[i].line \in ValidPositions(lines)
          /\ entries[i].title = lines[entries[i].line].title.val
          /\ entries[i].url = lines[entries[i].line].url.val
    /\ \A i, j \in 1..Len(entries) : i < j => entries[i].line < entries[j].line

\* C10: a missing store counts as empty and never raises: with one store
\* missing and the other readable, load_entries returns exactly the valid
\* entries of the other; with both missing every search returns the empty
\* list.
C10_MissingStoreIsEmpty ==
    /\ (hsStatus = "missing" /\ lpStatus = "present") =>
          /\ ~LoadRaises(hsStatus, lpStatus)
          /\ IsLoadOf(Loaded, "lifeprint", lpLines)
    /\ (lpStatus = "missing" /\ hsStatus = "present") =>
          /\ ~LoadRaises(hsStatus, lpStatus)
          /\ IsLoadOf(Loaded, "handspeak", hsLines)
    /\ (hsStatus = "missing" /\ lpStatus = "missing" /\ ~Idle) =>
          callStatus = "returned" /\ callResult = <<>>
    /\ ((hsStatus = "missing" /\ lpStatus = "present")
         \/ (lpStatus = "missing" /\ hsStatus = "present")) =>
          callStatus # "raised"

\* A search that matched a record of the one store that exists, which also
\* holds a line that is no valid record.
C10_Witness ==
    /\ Returned /\ callResult # <<>>
    /\ hsStatus = "missing" /\ lpStatus = "present"
    /\ Cardinality(ValidPositions(lpLines)) < Len(lpLines)

\* Whether two entries are equal as the dataclass compares them.
SameEntry(e, f) == e.source = f.source /\ e.title = f.title /\ e.url = f.url

\* C11 as stated: no two results of one search refer to entries equal in
\* source, title and url, even when a record occurs twice in the stores.
C11_NoEqualEntries ==
    Returned =>
        \A i, j \in 1..Len(callResult) :
            i < j => ~SameEntry(callResult[i].entry, callResult[j].entry)

\* C11 amended: no two results of one search refer to the same loaded
\* Entry, that is to the same record line of the same store; a record that
\* occurs on two lines gives two entries, each ranked once.
C11_EachLoadedEntryOnce ==
    Returned =>
        \A i, j \in 1..Len(callResult) :
            i < j =>
                ~(/\ callResult[i].entry.source = callResult[j].entry.source
                  /\ callResult[i].entry.line = callResult[j].entry.line)

\* Two results equal in source, title and url, from two lines of one store.
C11_Witness ==
    /\ Returned
    /\ \E i, j \in 1..Len(callResult) :
          /\ i < j
          /\ SameEntry(callResult[i].entry, callResult[j].entry)
          /\ callResult[i].entry.line # callResult[j].entry.line

\* C12: every result search returns has a score from 0.0 to 1.0, both
\* included.
C12_ScoreInUnitRange ==
    Returned =>
        \A k \in 1..Len(callResult) :
            /\ callResult[k].score.den > 0
            /\ 0 <= callResult[k].score.num
            /\ callResult[k].score.num <= callResult[k].score.den

\* A similarity result, whose score is computed and lies strictly inside.
C12_Witness ==
    /\ Returned
    /\ Len(callResult) = 1
    /\ callResult[1].reason.text = "similarity"
    /\ 0 < callResult[1].score.num
    /\ callResult[1].score.num < callResult[1].score.den

\* C13 as stated: two results of one search produced by the same tier
\* (the similarity tier included) have equal scores.
C13_SameTierSameScore ==
    Returned =>
        \A i, j \in 1..Len(callResult) :
            callResult[i].reason.text = callResult[j].reason.text
                => callResult[i].score = callResult[j].score

\* The score the four tiers other than similarity give.
FixedTierScore(text) ==
    CASE text = "exact match" -> [num |-> 1, den |-> 1]
      [] text = "prefix match" -> [num |-> 23, den |-> 25]
      [] text = "all query tokens present" -> [num |-> 22, den |-> 25]
      [] text = "substring match" -> [num |-> 3, den |-> 4]

\* The similarity ratio of the query of the call and the title of a result.
RatioOf(r) == similarity(QueryNorm, norm_title(r.entry))

\* C13 amended: two results of one search produced by the same tier other
\* than the similarity tier have equal scores (1.00, 0.92, 0.88 and 0.75);
\* two results of the similarity tier have equal scores exactly when their
\* similarity ratios are equal.
C13_FixedTiersTie ==
    Returned =>
        \A i, j \in 1..Len(callResult) :
            callResult[i].reason.text = callResult[j].reason.text =>
                IF callResult[i].reason.text = "similarity"
                THEN (callResult[i].score = callResult[j].score)
                        <=> (RatioOf(callResult[i]) = RatioOf(callResult[j]))
                ELSE /\ callResult[i].score = FixedTierScore(callResult[i].reason.text)
                     /\ callResult[i].score = callResult[j].score

\* Two substring results in one list.
C13_Witness ==
    /\ Returned
    /\ \E i, j \in 1..Len(callResult) :
          /\ i < j
          /\ callResult[i].reason.text = "substring match"
          /\ callResult[j].reason.text = "substring match"

\* C14: normalize_text is idempotent: normalizing a text that is already the
\* output of normalize_text gives that text again.
C14_NormalizeIdempotent ==
    textStatus = "done" => normalize_text(textNorm) = textNorm

\* A raw text with an upper-case letter that normalization shortened to a
\* non-empty text.
C14_Witness ==
    /\ textStatus = "done"
    /\ textNorm # <<>>
    /\ Len(textNorm) < Len(textIn)
    /\ \E k \in 1..Len(textIn) : textIn[k] \in UpperChars

\* The pieces of a text between its newlines.
RECURSIVE SplitLines(_, _)
SplitLines(text, cur) ==
    IF text = <<>> THEN <<cur>>
    ELSE IF Head(text) = "\n"
         THEN <<cur>> \o SplitLines(Tail(text), <<>>)
         ELSE SplitLines(Tail(text), Append(cur, Head(text)))

\* A report was made of the list the call returned.
Reported == callStatus = "returned" /\ fmtStatus # "none"

\* C15: for an empty result list the report is one line without a newline,
\* "No matches found for " followed by the quoted raw query (upper case and
\* punctuation kept, newline and tab written as escapes) and a full stop,
\* whatever include_reasons is.
C15_NoMatchesLine ==
    Reported /\ callResult = <<>> =>
        LET n == Len(fmtText)
        IN  /\ n = Len(callQuery) + 4
            /\ fmtText[1] = "No matches found for "
            /\ fmtText[2] = "'"
            /\ \A k \in 1..Len(callQuery) :
                   fmtText[k + 2] = IF callQuery[k] = "\n" THEN "\\n"
                                    ELSE IF callQuery[k] = "\t" THEN "\\t"
                                    ELSE callQuery[k]
            /\ fmtText[n - 1] = "'"
            /\ fmtText[n] = "."
            /\ \A k \in 1..n : fmtText[k] # "\n"

\* The no-matches report, with reasons asked for, of a query with an
\* upper-case letter and a newline, against a store that holds records.
C15_Witness ==
    /\ Reported
    /\ callResult = <<>>
    /\ fmtStatus = "returned"
    /\ fmtReasons
    /\ callQuery = <<"B", "\n", "1">>
    /\ hsStatus = "present" /\ hsLines # <<>>

\* C16: for n > 0 results the report has exactly n + 1 lines: a header with
\* the query, then one line per result in result order showing the source
\* tag, the title and the URL, with the reason and the score on it exactly
\* when include_reasons is true.
C16_HeaderAndLinePerResult ==
    Reported /\ callResult # <<>> =>
        LET lines == SplitLines(fmtText, <<>>)
            n == Len(callResult)
        IN  /\ Len(lines) = n + 1
            /\ lines[1][1] = "Results for "
            /\ \A k \in 1..n :
                   LET r == callResult[k]
                       l == lines[k + 1]
                       t == Len(r.entry.title)
                       u == Len(r.entry.url)
                   IN  /\ Len(l) >= 4 + t + u
                       /\ SubSeq(l, 1, 3) = <<"- [", r.entry.source, "] ">>
                       /\ SubSeq(l, 4, 3 + t) = r.entry.title
                       /\ l[4 + t] = ": "
                       /\ SubSeq(l, 5 + t, 4 + t + u) = r.entry.url
                       /\ fmtReasons <=> Len(l) > 4 + t + u
                       /\ fmtReasons => l[5 + t + u] = " (" /\ l[Len(l)] = ")"

\* C17: main returns 2 without a search exactly when argv[1:] is empty; in
\* every other case it runs one search with limit 10 on the space-joined
\* arguments, prints one report with reasons, and returns 0.
C17_MainReturns ==
    mainStatus # "none" =>
        /\ mainArgs = <<>> <=> (mainStatus = "returned" /\ mainReturn = 2)
        /\ mainArgs = <<>> => callStatus = "idle"
        /\ mainArgs # <<>> =>
               /\ mainStatus = "returned" /\ mainReturn = 0
               /\ callStatus = "returned"
               /\ callQuery = JoinSpace(mainArgs)
               /\ callLimit = 10
               /\ fmtStatus = "printed" /\ fmtReasons

\* The positions of the records of a store that the query of the call
\* matches.
MatchingPositions(src) ==
    {k \in ValidPositions(LinesOf(src)) :
        rank_entry(QueryNorm, tokenize(QueryNorm),
                   Entry(src, LinesOf(src)[k].title.val, LinesOf(src)[k].url.val, k)).matched}

\* C18: search keeps nothing between calls: whatever earlier calls loaded,
\* every result of a call is a valid record that is in the stores at that
\* call (so a record removed since an earlier call cannot appear), and the
\* list holds all the records now in the stores that match, up to the limit
\* (so a record appended since an earlier call can appear).
C18_ResultsFromStoresAtCall ==
    (Returned /\ QueryNorm # <<>>) =>
        /\ \A k \in 1..Len(callResult) :
               LET e == callResult[k].entry
               IN  /\ StatusOf(e.source) = "present"
                   /\ e.line \in ValidPositions(LinesOf(e.source))
                   /\ e.title = LineOfEntry(e).title.val
                   /\ e.url = LineOfEntry(e).url.val
        /\ Len(callResult) =
               Min(callLimit, Cardinality(MatchingPositions(HANDSPEAK_DICT_PATH))
                              + Cardinality(MatchingPositions(LIFEPRINT_DICT_PATH)))

\* A second call, below its limit, that returns a record the earlier call
\* did not load and does not return a matching record the earlier call
\* loaded.
C18_Witness ==
    /\ histOn
    /\ Returned
    /\ prevEntries # <<>>
    /\ Len(callResult) < callLimit
    /\ \E k \in 1..Len(callResult) :
          \A i \in 1..Len(prevEntries) : ~SameEntry(callResult[k].entry, prevEntries[i])
    /\ \E i \in 1..Len(prevEntries) :
          /\ rank_entry(QueryNorm, tokenize(QueryNorm), prevEntries[i]).matched
          /\ \A k \in 1..Len(callResult) : ~SameEntry(callResult[k].entry, prevEntries[i])

\* The words of a normalized text: its maximal runs of non-space characters.
WordsOf(t) ==
    {SubSeq(t, p[1], p[2]) :
        p \in {p \in (1..Len(t)) \X (1..Len(t)) :
                  /\ p[1] <= p[2]
                  /\ \A k \in p[1]..p[2] : t[k] # " "
                  /\ p[1] = 1 \/ t[p[1] - 1] = " "
                  /\ p[2] = Len(t) \/ t[p[2] + 1] = " "}}

\* q occurs in t as a contiguous run.
IsSubstring(q, t) ==
    \E i \in 0..(Len(t) - Len(q)) : \A k \in 1..Len(q) : t[i + k] = q[k]

\* The first tier, in the order exact, prefix, all-tokens, substring,
\* similarity, whose condition a normalized query q and a normalized title t
\* meet; "none" when they meet no condition.
FirstTier(q, t) ==
    IF t = q THEN "exact match"
    ELSE IF IsProperPrefix(q, t) THEN "prefix match"
    ELSE IF WordsOf(q) # {} /\ WordsOf(q) \subseteq WordsOf(t) THEN "all query tokens present"
    ELSE IF IsSubstring(q, t) THEN "substring match"
    ELSE IF 100 * similarity(q, t).num >= 72 * similarity(q, t).den THEN "similarity"
    ELSE "none"

\* Whether the one record is ranked by the tier named, with that tier's
\* score when the score is fixed; not ranked at all for "none".
RankedByTier(tier) ==
    IF tier = "none" THEN callResult = <<>>
    ELSE /\ Len(callResult) = 1
         /\ callResult[1].reason.text = tier
         /\ tier # "similarity" => callResult[1].score = FixedTierScore(tier)

\* C19 as stated: the entry is scored by exactly one tier, the first whose
\* condition applies in the order exact, prefix, all-tokens, substring,
\* similarity (so token inclusion gives 0.88 even when the query is a
\* substring of the title, and a substring-only match gives 0.75).
C19_FirstTierApplies ==
    (Returned /\ QueryNorm # <<>>) => RankedByTier(FirstTier(QueryNorm, OnlyTitleNorm))

\* C19 amended: the same, unless the short-title filter rejects the entry
\* (normalized query of 3 or more characters, normalized title of at most
\* 1), in which case it is not ranked.
C19_FirstTierUnlessFiltered ==
    (Returned /\ QueryNorm # <<>>) =>
        IF Len(QueryNorm) >= 3 /\ Len(OnlyTitleNorm) <= 1
        THEN callResult = <<>>
        ELSE RankedByTier(FirstTier(QueryNorm, OnlyTitleNorm))

\* The token tier taking an entry whose title also holds the query as a
\* substring but not at its start: query "a", title "B a".
C19_Witness ==
    /\ Returned /\ QueryNorm # <<>>
    /\ ~IsProperPrefix(QueryNorm, OnlyTitleNorm)
    /\ IsSubstring(QueryNorm, OnlyTitleNorm)
    /\ Len(callResult) = 1
    /\ callResult[1].reason.text = "all query tokens present"
    /\ callResult[1].score = [num |-> 22, den |-> 25]

\* Query "helo" against title "hello": ratio 8/9, reason "similarity 0.89",
\* score 0.50 + 0.40 * 8/9 = 77/90 = 0.8556.
HeloAgainstHello ==
    LET helo == <<"h", "e", "l", "o">>
        hello == <<"h", "e", "l", "l", "o">>
        rr == rank_entry(normalize_text(helo), tokenize(helo),
                         Entry(HANDSPEAK_DICT_PATH, hello, <<"u">>, 1))
    IN  /\ rr.matched
        /\ rr.reason = Reason("similarity", 89)
        /\ rr.score = [num |-> 77, den |-> 90]

\* C20: when none of the exact, prefix, all-tokens and substring tiers
\* applies, the entry is ranked exactly when the similarity ratio s of
\* normalized query and normalized title is at least 0.72; its score is then
\* 0.50 + 0.40 * s and its reason "similarity" with s rounded to the nearest
\* hundredth; below 0.72 there is no result.  "helo" against "hello" gives
\* "similarity 0.89" and 0.8556.
C20_SimilarityTier ==
    /\ HeloAgainstHello
    /\ (/\ Returned /\ QueryNorm # <<>>
        /\ OnlyTitleNorm # QueryNorm
        /\ ~IsProperPrefix(QueryNorm, OnlyTitleNorm)
        /\ ~(WordsOf(QueryNorm) \subseteq WordsOf(OnlyTitleNorm))
        /\ ~IsSubstring(QueryNorm, OnlyTitleNorm)) =>
           LET s == similarity(QueryNorm, OnlyTitleNorm)
           IN  IF 100 * s.num >= 72 * s.den
               THEN /\ Len(callResult) = 1
                    /\ callResult[1].reason.text = "similarity"
                    /\ LET h == callResult[1].reason.hundredths
                           d == 100 * s.num - h * s.den
                       IN  2 * d <= s.den /\ -2 * d <= s.den
                    /\ callResult[1].score.num * 10 * s.den
                           = callResult[1].score.den * (5 * s.den + 4 * s.num)
               ELSE callResult = <<>>

\* A similarity match of ratio 0.80: query "aB" against title "a B", reason
\* "similarity 0.80", score 0.82.
C20_Witness ==
    /\ Returned
    /\ ~IsSubstring(QueryNorm, OnlyTitleNorm)
    /\ Len(callResult) = 1
    /\ callResult[1].reason = Reason("similarity", 80)
    /\ callResult[1].score = [num |-> 41, den |-> 50]

\* C21: no result refers to an entry whose normalized title is empty, and
\* when the normalized query has 3 or more characters no result refers to
\* an entry whose normalized title has fewer than 2.
C21_ShortTitlesFiltered ==
    Returned =>
        \A k \in 1..Len(callResult) :
            /\ norm_title(callResult[k].entry) # <<>>
            /\ Len(QueryNorm) >= 3 => Len(norm_title(callResult[k].entry)) >= 2

\* A query of 3 normalized characters all of whose tokens are the
\* one-character title of the record, and no result: query "a a", title "a".
C21_Witness ==
    /\ Returned
    /\ Len(QueryNorm) >= 3
    /\ Len(OnlyTitleNorm) = 1
    /\ WordsOf(QueryNorm) \subseteq WordsOf(OnlyTitleNorm)
    /\ callResult = <<>>

\* C22: the entries a search loads are the valid records of the handspeak
\* store in file order, tagged "handspeak", followed by the valid records of
\* the lifeprint store in file order, tagged "lifeprint"; a blank line, a
\* line that is not JSON and a JSON value that is not an object give no
\* entry and leave the others in order.
C22_LoadOrder ==
    (Returned /\ callLoaded) =>
        LET n == Cardinality(ValidPositions(hsLines))
        IN  /\ Len(Loaded) = n + Cardinality(ValidPositions(lpLines))
            /\ IsLoadOf(SubSeq(Loaded, 1, n), "handspeak", hsLines)
            /\ IsLoadOf(SubSeq(Loaded, n + 1, Len(Loaded)), "lifeprint", lpLines)
            /\ \A i \in 1..Len(Loaded) :
                  LineOfEntry(Loaded[i]).kind \notin {"blank", "badjson", "nonobject"}

\* A search that loaded a handspeak record standing after a line that gives
\* no entry, and a lifeprint record.
C22_Witness ==
    /\ Returned /\ callLoaded
    /\ hsStatus = "present" /\ lpStatus = "present"
    /\ \E k \in ValidPositions(hsLines) :
          k > 1 /\ hsLines[k - 1].kind \in {"blank", "badjson", "nonobject"}
    /\ ValidPositions(lpLines) # {}
    /\ Len(Loaded) = 2

\* C23: the output of normalize_text holds only lower-case letters, digits
\* and spaces, with no space first, last or next to another space; an input
\* that is empty or holds only whitespace and punctuation normalizes to the
\* empty text.
C23_NormalizedShape ==
    textStatus = "done" =>
        /\ \A k \in 1..Len(textNorm) :
              textNorm[k] \in LowerChars \cup DigitChars \cup {" "}
        /\ textNorm # <<>> => textNorm[1] # " " /\ textNorm[Len(textNorm)] # " "
        /\ \A k \in 1..(Len(textNorm) - 1) : ~(textNorm[k] = " " /\ textNorm[k + 1] = " ")
        /\ (\A k \in 1..Len(textIn) : textIn[k] \in SpaceChars \cup PunctChars)
              => textNorm = <<>>

\* A raw text whose inner tab, newline or punctuation became the one space
\* between two words.
C23_Witness ==
    /\ textStatus = "done"
    /\ Len(textIn) = 3
    /\ textIn[2] # " "
    /\ Len(textNorm) = 3
    /\ textNorm[2] = " "

\* C24: tokenize(s) is a sequence of non-empty tokens without a space, in
\* order and with duplicates kept: joined with single spaces they give
\* normalize_text(s), and there are no tokens exactly when normalize_text(s)
\* is empty.
C24_TokensJoinToNormalized ==
    textStatus = "done" =>
        /\ \A i \in 1..Len(textTokens) :
              /\ textTokens[i] # <<>>
              /\ \A k \in 1..Len(textTokens[i]) : textTokens[i][k] # " "
        /\ JoinSpace(textTokens) = textNorm
        /\ textTokens = <<>> <=> textNorm = <<>>

\* A raw text that tokenizes to the same token twice.
C24_Witness ==
    /\ textStatus = "done"
    /\ Len(textTokens) = 2
    /\ textTokens[1] = textTokens[2]
    /\ textIn # textNorm

\* C25: two searches on the same stores with the same limit, whose raw
\* queries have the same normalized form, return the same list: the same
\* entries with the same scores and reasons in the same order.
C25_SameNormalizedQuerySameResult ==
    (Returned /\ twinStatus = "returned" /\ normalize_text(twinQuery) = QueryNorm)
        => twinResult = callResult

\* Two raw queries that differ and normalize alike, each returning the same
\* two results.
C25_Witness ==
    /\ Returned /\ twinStatus = "returned"
    /\ twinQuery # callQuery
    /\ normalize_text(twinQuery) = QueryNorm
    /\ Len(callResult) = 2
    /\ Len(twinResult) = 2
    /\ callResult[1].reason # callResult[2].reason

\* C26: every score of the similarity tier is at least 0.788 and below 0.90,
\* so below the scores of the prefix tier (0.92) and the exact tier (1.00):
\* the ratio of two different non-empty normalized texts is below 1.
C26_SimilarityScoreRange ==
    (Returned /\ QueryNorm # <<>>) =>
        /\ (OnlyTitleNorm # <<>> /\ OnlyTitleNorm # QueryNorm) =>
               similarity(QueryNorm, OnlyTitleNorm).num < similarity(QueryNorm, OnlyTitleNorm).den
        /\ \A k \in 1..Len(callResult) :
               callResult[k].reason.text = "similarity" =>
                   /\ 1000 * callResult[k].score.num >= 788 * callResult[k].score.den
                   /\ 10 * callResult[k].score.num < 9 * callResult[k].score.den
                   /\ RatLess(callResult[k].score, PrefixScore)
                   /\ RatLess(callResult[k].score, ExactScore)

\* A similarity match of a query longer than the title: query "a B", title
\* "aB".
C26_Witness ==
    /\ Returned
    /\ Len(QueryNorm) > Len(OnlyTitleNorm)
    /\ Len(callResult) = 1
    /\ callResult[1].reason.text = "similarity"
    /\ 10 * callResult[1].score.num < 9 * callResult[1].score.den

\* C27: for a normalized query of 3 or more characters and a normalized
\* title of at most 1, the entry is not ranked, and of the tiers only the
\* all-tokens tier could have applied: the pair is not exact, not a prefix,
\* not a substring, its ratio is below 0.72, and the token condition holds
\* exactly when the title is one character and every query token is that
\* character.
C27_FilterOnlyCutsTokenTier ==
    (Returned /\ Len(QueryNorm) >= 3 /\ Len(OnlyTitleNorm) <= 1) =>
        /\ callResult = <<>>
        /\ OnlyTitleNorm # QueryNorm
        /\ ~IsProperPrefix(QueryNorm, OnlyTitleNorm)
        /\ ~IsSubstring(QueryNorm, OnlyTitleNorm)
        /\ 100 * similarity(QueryNorm, OnlyTitleNorm).num
              < 72 * similarity(QueryNorm, OnlyTitleNorm).den
        /\ FirstTier(QueryNorm, OnlyTitleNorm) \in {"none", "all query tokens present"}
        /\ FirstTier(QueryNorm, OnlyTitleNorm) = "all query tokens present"
              <=> (Len(OnlyTitleNorm) = 1 /\ WordsOf(QueryNorm) = {OnlyTitleNorm})

\* The filter cutting a token match: raw query "a!a", raw title "a".
C27_Witness ==
    /\ Returned
    /\ Len(QueryNorm) >= 3
    /\ Len(OnlyTitleNorm) = 1
    /\ FirstTier(QueryNorm, OnlyTitleNorm) = "all query tokens present"
    /\ callResult = <<>>
    /\ callQuery # QueryNorm

\* C28: results of one search with equal score and equal source tag are
\* returned in the order of their records in the store.
C28_TiesKeepStoreOrder ==
    Returned =>
        \A i, j \in 1..Len(callResult) :
            (/\ i < j
             /\ callResult[i].score = callResult[j].score
             /\ callResult[i].entry.source = callResult[j].entry.source)
                => callResult[i].entry.line < callResult[j].entry.line

\* Two results of equal score and different titles from the same store.
C28_Witness ==
    /\ Returned
    /\ Len(callResult) = 2
    /\ callResult[1].score = callResult[2].score
    /\ callResult[1].entry.source = callResult[2].entry.source
    /\ callResult[1].entry.title # callResult[2].entry.title

\* C29: for the guild, under every interleaving of _post_daily_word
\* invocations suspended at the channel send, at most one daily-word
\* message is sent per UTC day.
C29_OnePostPerDay ==
    \A d \in Days : dailySent[d] <= 1

\* The number of "404" responses that end the responses so far.
RECURSIVE TrailingMisses(_)
TrailingMisses(rs) ==
    IF rs = <<>> \/ rs[Len(rs)] # "404" THEN 0
    ELSE 1 + TrailingMisses(SubSeq(rs, 1, Len(rs) - 1))

\* What holds of an update at every moment: it has appended one record per
\* page served and no more than max_new (none for a negative max_new); a
\* request error is the last response and ends it; it has ended exactly
\* when an end condition was met; the miss counter is the number of
\* consecutive misses since the last saved entry; the id probed next is 1
\* more than the number of completed iterations.
UpdateBounded ==
    updStatus # "idle" =>
        /\ updWrote = Len(SelectSeq(updResponses, LAMBDA r : r = "ok"))
        /\ Len(hsLines) = updWrote
        /\ updWrote <= (IF updMaxNew >= 0 THEN updMaxNew ELSE 0)
        /\ \A k \in 1..Len(updResponses) :
              updResponses[k] = "error" =>
                  k = Len(updResponses) /\ updStatus = "done" /\ updStop = "error"
        /\ updStop # "error" => updMisses = TrailingMisses(updResponses)
        /\ updMisses >= updMax404 <=> updStop = "404s"
        /\ updStop # "none" <=> updStatus = "done"
        /\ updStatus = "running" => updId = 1 + Len(updResponses)
        /\ updStop = "max_new" => updWrote >= updMaxNew

\* C30: update_handspeak_dict terminates for every integer max_new and every
\* sequence of responses, and until then stays within the bounds of
\* UpdateBounded.
C30_UpdateTerminates ==
    /\ [](UpdateBounded)
    /\ (updStatus = "running") ~> (updStatus = "done")

\* An update that saved max_new entries with a miss between them, the miss
\* counter back at zero, and returned.
C30_Witness ==
    /\ updStatus = "done"
    /\ updStop = "max_new"
    /\ updMaxNew = 2
    /\ updWrote = 2
    /\ updResponses = <<"ok", "404", "ok">>
    /\ updMisses = 0

===========================================================================
